---- MODULE Spec2Model ----
(***************************************************************************)
(* Model of dividend-cli (package dividend_calculator): the split          *)
(* adjustment of dividend events, the year-over-year classification, the   *)
(* windowed CAGR helper and the metric pipeline of the filter and stats    *)
(* commands.                                                               *)
(*                                                                         *)
(* Numbers.  The program computes on Python floats.  The model computes on *)
(* exact rationals <<n, d>> (d > 0, lowest terms), so that the epsilon     *)
(* 1e-6 and the split ratios numerator/denominator keep their exact value. *)
(* Dates.  An ex_date is an ISO string 'YYYY-MM-DD'; the model writes it   *)
(* as the integer YYYY * 10000 + MM * 100 + DD, whose order is the         *)
(* lexicographic order of the string, and takes the year by division.      *)
(***************************************************************************)
EXTENDS Integers, Sequences, FiniteSets, TLC

VARIABLES
    pc,                   \* "call" before a function under study has run, "done" after
    \* ---- utils.classify_years called on its own
    yearly_totals_list,   \* the argument of classify_years
    counts,               \* its return value once pc = "done"
    \* ---- utils.adjust_dividends called on its own
    dividends,            \* the argument `dividends` (list of dict)
    splits,               \* the argument `splits` (list of dict)
    adjusted,             \* its return value once pc = "done"
    \* ---- cli.get_cagr_for_years called on its own
    yearly_totals,        \* the argument, a Series: sequence of <<year, total>>
    years,                \* the argument `years`
    cagr_result,          \* its return value once pc = "done"
    \* ---- the store and the commands
    db_dividends,         \* table dividends: set of rows (ticker_id, ex_date, amount)
    db_prices,            \* table prices: set of rows (ticker_id, ex_date, close_price)
    db_splits,            \* table splits: set of rows (ticker_id, ex_date, numerator, denominator)
    current_year,         \* datetime.now().year
    filter_out,           \* what the running filter command has done, NoOutput at the prompt
    stats_out,            \* what the running stats command has done, NoOutput at the prompt
    \* ---- a function of utils.py or db.py called on its own
    call,                 \* the call: <<function name, arguments...>>
    result,               \* its return value once pc = "done"
    \* ---- the data vendor read by fetch_dividends
    vendor                \* the history of the ticker as the vendor knows it

vars == <<pc, yearly_totals_list, counts, dividends, splits, adjusted,
          yearly_totals, years, cagr_result,
          db_dividends, db_prices, db_splits, current_year, filter_out, stats_out,
          call, result, vendor>>

\* Python's None.  Every value a metric can take is a tuple: None is the empty
\* one, a number is a rational <<n, d>>, an exception is <<"TypeError">>.
None == <<>>

NoCounts == [up |-> 0, stalled |-> 0, reduced |-> 0, stopped |-> 0]

\* no command is running
NoOutput == [status |-> "none"]

\* no call is made
NoCall == <<>>

\* the vendor knows nothing of the ticker: no dividend paid, no split
NoVendor == [paid |-> {}, splits |-> {}]

-----------------------------------------------------------------------------
(* Exact rational arithmetic standing for the float arithmetic of the code *)

Abs(x) == IF x < 0 THEN -x ELSE x

RECURSIVE GCD(_, _)
GCD(a, b) == IF b = 0 THEN a ELSE GCD(b, a % b)

LCM(a, b) == (a \div GCD(a, b)) * b

Rat(n, d) ==
    LET g == GCD(Abs(n), Abs(d))
        s == IF d < 0 THEN -1 ELSE 1
    IN  <<(s * n) \div g, (s * d) \div g>>

R(n) == <<n, 1>>

RatZero == R(0)
RatOne == R(1)

RatMul(a, b) ==
    LET g1 == GCD(Abs(a[1]), b[2])
        g2 == GCD(Abs(b[1]), a[2])
    IN  Rat((a[1] \div g1) * (b[1] \div g2), (a[2] \div g2) * (b[2] \div g1))

RatDiv(a, b) == RatMul(a, Rat(b[2], b[1]))

RatAdd(a, b) ==
    LET l == LCM(a[2], b[2])
    IN  Rat(a[1] * (l \div a[2]) + b[1] * (l \div b[2]), l)

RatNeg(a) == <<-a[1], a[2]>>

RatSub(a, b) == RatAdd(a, RatNeg(b))

RatAbs(a) == <<Abs(a[1]), a[2]>>

\* a < b: by the integer parts, and by the fractional parts when those agree
RatLT(a, b) ==
    LET fa == a[1] \div a[2]
        fb == b[1] \div b[2]
        l == LCM(a[2], b[2])
    IN  IF fa # fb THEN fa < fb
        ELSE (a[1] % a[2]) * (l \div a[2]) < (b[1] % b[2]) * (l \div b[2])

RatLE(a, b) == a = b \/ RatLT(a, b)

RECURSIVE RatSum(_)
RatSum(s) == IF s = <<>> THEN RatZero ELSE RatAdd(s[1], RatSum(Tail(s)))

RECURSIVE RatProd(_)
RatProd(s) == IF s = <<>> THEN RatOne ELSE RatMul(s[1], RatProd(Tail(s)))

RECURSIVE RatPow(_, _)
RatPow(a, k) == IF k = 0 THEN RatOne ELSE RatMul(a, RatPow(a, k - 1))

\* sequences over S of length lo..hi
SeqsOf(S, lo, hi) == UNION {[1..n -> S] : n \in lo..hi}

-----------------------------------------------------------------------------
(* utils.py                                                                *)

\* the literal 1e-6 of classify_years
Eps == Rat(1, 1000000)

\* one iteration of the loop of classify_years: which counter it increments
ClassifyPair_ClosedStall(prev, cur) ==
    IF RatLT(cur, Eps) THEN "stopped"
    ELSE IF RatLT(RatAdd(prev, Eps), cur) THEN "up"
    ELSE IF RatLE(RatAbs(RatSub(cur, prev)), Eps) THEN "stalled"
    ELSE "reduced"

ClassifyPair(prev, cur) ==
    IF RatLT(cur, Eps) THEN "stopped"
    ELSE IF RatLT(RatAdd(prev, Eps), cur) THEN "up"
    ELSE IF RatLT(RatAbs(RatSub(cur, prev)), Eps) THEN "stalled"
    ELSE "reduced"

\* the loop over zip(yearly_totals, yearly_totals[1:]), from pair i on
RECURSIVE ClassifyFrom(_, _, _)
ClassifyFrom(s, i, acc) ==
    IF i + 1 > Len(s) THEN acc
    ELSE LET k == ClassifyPair(s[i], s[i + 1])
         IN  ClassifyFrom(s, i + 1, [acc EXCEPT ![k] = @ + 1])

classify_years(s) ==
    ClassifyFrom(s, 1, NoCounts)

\* dividend_yield(amount, price)
dividend_yield_ZeroPriceOnly(amount, price) ==
    IF price = RatZero THEN RatZero
    ELSE RatMul(RatDiv(amount, price), R(100))

dividend_yield(amount, price) ==
    IF RatLE(price, RatZero) THEN RatZero
    ELSE RatMul(RatDiv(amount, price), R(100))

RECURSIVE IntPow(_, _)
IntPow(x, k) == IF k = 0 THEN 1 ELSE x * IntPow(x, k - 1)

\* the exponent of the prime p in n > 0
RECURSIVE ExpOf(_, _)
ExpOf(n, p) == IF n % p = 0 THEN 1 + ExpOf(n \div p, p) ELSE 0

\* the least x >= from with x^k >= n
RECURSIVE RootCeil(_, _, _)
RootCeil(from, n, k) == IF IntPow(from, k) >= n THEN from ELSE RootCeil(from + 1, n, k)

\* the k-th root of n >= 0 when n is a perfect k-th power, otherwise -1: the
\* factors 2, 3, 5, 7 and 11 are taken out first, the rest is searched
SmallPrimes == <<2, 3, 5, 7, 11>>

RECURSIVE RootOver(_, _, _, _)
RootOver(n, k, i, acc) ==
    IF i > Len(SmallPrimes)
    THEN LET r == RootCeil(1, n, k)
         IN  IF IntPow(r, k) = n THEN acc * r ELSE -1
    ELSE LET p == SmallPrimes[i]
             e == ExpOf(n, p)
         IN  IF e % k # 0 THEN -1
             ELSE RootOver(n \div IntPow(p, e), k, i + 1, acc * IntPow(p, e \div k))

ExactRoot(n, k) == IF n = 0 THEN 0 ELSE IF n < 0 THEN -1 ELSE RootOver(n, k, 1, 1)

\* cagr(first, last, years) = ((last / first) ** (1.0 / years) - 1.0) * 100.0.
\* The root of the rational q = last / first is rational exactly when the
\* numerator and the denominator of q are perfect powers, and the result is
\* then the rational (root - 1) * 100; any other result is irrational and is
\* written <<"root", years, n, d>>, standing for ((n / d)^(1 / years) - 1) * 100.
cagr_NoMinusOne(first, last, yrs) ==
    IF yrs <= 0 \/ RatLE(first, RatZero) THEN RatZero
    ELSE LET q == RatDiv(last, first)
             rn == ExactRoot(q[1], yrs)
             rd == ExactRoot(q[2], yrs)
         IN  IF rn >= 0 /\ rd >= 0
             THEN RatMul(Rat(rn, rd), R(100))
             ELSE <<"root", yrs, q[1], q[2]>>

cagr(first, last, yrs) ==
    IF yrs <= 0 \/ RatLE(first, RatZero) THEN RatZero
    ELSE LET q == RatDiv(last, first)
             rn == ExactRoot(q[1], yrs)
             rd == ExactRoot(q[2], yrs)
         IN  IF rn >= 0 /\ rd >= 0
             THEN RatMul(RatSub(Rat(rn, rd), RatOne), R(100))
             ELSE <<"root", yrs, q[1], q[2]>>

\* x < m for a metric x (a rational or a root) and a rational threshold m
NumLT(x, m) ==
    IF Len(x) = 2 THEN RatLT(x, m)
    ELSE LET base == RatAdd(RatOne, RatDiv(m, R(100)))
         IN  /\ RatLT(RatZero, base)
             /\ RatLT(<<x[3], x[4]>>, RatPow(base, x[2]))

\* sorted(xs, key=lambda x: x['ex_date']): Python's sort is stable, an element
\* goes after every element already placed whose key is not greater
RECURSIVE InsertByDate_BeforeEqual(_, _)
InsertByDate_BeforeEqual(x, s) ==
    IF s = <<>> THEN <<x>>
    ELSE IF s[1].ex_date < x.ex_date
         THEN <<s[1]>> \o InsertByDate_BeforeEqual(x, Tail(s))
         ELSE <<x>> \o s

RECURSIVE InsertByDate(_, _)
InsertByDate(x, s) ==
    IF s = <<>> THEN <<x>>
    ELSE IF s[1].ex_date <= x.ex_date
         THEN <<s[1]>> \o InsertByDate(x, Tail(s))
         ELSE <<x>> \o s

RECURSIVE sorted(_)
sorted(s) ==
    IF s = <<>> THEN <<>>
    ELSE InsertByDate(s[Len(s)], sorted(SubSeq(s, 1, Len(s) - 1)))

\* the test of line 84: the split counts as AFTER the dividend
SplitIsAfter_SameDay(split, div) == split.ex_date >= div.ex_date

SplitIsAfter(split, div) == split.ex_date > div.ex_date

\* split['numerator'] / split['denominator']
SplitRatio_Inverted(split) == RatDiv(split.denominator, split.numerator)

SplitRatio(split) == RatDiv(split.numerator, split.denominator)

\* the inner loop of adjust_dividends over sorted_splits, from split j on
RECURSIVE SplitFactors(_, _, _, _)
SplitFactors(sorted_splits, div, j, acc) ==
    IF j > Len(sorted_splits) THEN acc
    ELSE LET split == sorted_splits[j]
         IN  IF SplitIsAfter(split, div)
             THEN SplitFactors(sorted_splits, div, j + 1,
                      [acc EXCEPT !.splits_after = RatMul(@, SplitRatio(split))])
             ELSE IF split.ex_date <= div.ex_date
             THEN SplitFactors(sorted_splits, div, j + 1,
                      [acc EXCEPT !.splits_at_time = RatMul(@, SplitRatio(split))])
             ELSE SplitFactors(sorted_splits, div, j + 1, acc)

\* truth value of a float-or-None: None and 0.0 are false
Truthy(x) == x # None /\ x # RatZero

\* the body of the outer loop of adjust_dividends: new_div for one div.
\* new_div = dict(div) keeps every other key of the row.
AdjustOne_NoForwardStep(div, sorted_splits) ==
    LET f == SplitFactors(sorted_splits, div, 1,
                 [splits_after |-> RatOne, splits_at_time |-> RatOne])
        raw_amount == RatMul(div.amount, f.splits_after)
    IN  [id |-> div.id,
         ticker_id |-> div.ticker_id,
         ex_date |-> div.ex_date,
         amount |-> raw_amount,
         raw_amount |-> raw_amount,
         splits_at_time |-> f.splits_at_time,
         close_price |-> IF Truthy(div.close_price)
                         THEN RatMul(div.close_price, f.splits_after)
                         ELSE div.close_price]

AdjustOne(div, sorted_splits) ==
    LET f == SplitFactors(sorted_splits, div, 1,
                 [splits_after |-> RatOne, splits_at_time |-> RatOne])
        raw_amount == RatMul(div.amount, f.splits_after)
        forward_amount == RatMul(raw_amount, f.splits_at_time)
    IN  [id |-> div.id,
         ticker_id |-> div.ticker_id,
         ex_date |-> div.ex_date,
         amount |-> forward_amount,
         raw_amount |-> raw_amount,
         splits_at_time |-> f.splits_at_time,
         close_price |-> IF Truthy(div.close_price)
                         THEN RatMul(div.close_price, f.splits_after)
                         ELSE div.close_price]

adjust_dividends(divs, spls) ==
    LET sorted_splits == sorted(spls)
        sorted_divs == sorted(divs)
    IN  [i \in 1..Len(sorted_divs) |-> AdjustOne(sorted_divs[i], sorted_splits)]

-----------------------------------------------------------------------------
(* Specification SpecClassify: classify_years applied to a bounded series  *)

MaxSeriesLen == 3

\* yearly totals around the epsilon and the totals of the repository's test
ClassifyVals == {R(0), Rat(1, 2000000), Rat(1, 1000000), Rat(2, 1000000),
                 R(5), R(8), R(10), R(12)}

TestTotals == <<R(10), R(12), R(12), R(8), R(0), R(5)>>

\* the variables of the other specifications, at rest
IdleClassify == yearly_totals_list = <<>> /\ counts = NoCounts
IdleAdjust == dividends = <<>> /\ splits = <<>> /\ adjusted = <<>>
IdleCagr == yearly_totals = <<>> /\ years = 0 /\ cagr_result = None
IdleStore ==
    /\ db_dividends = {} /\ db_prices = {} /\ db_splits = {} /\ current_year = 0
    /\ filter_out = NoOutput /\ stats_out = NoOutput

IdleCall == call = NoCall /\ result = None
IdleVendor == vendor = NoVendor

classifyVars == <<yearly_totals_list, counts>>
adjustVars == <<dividends, splits, adjusted>>
cagrVars == <<yearly_totals, years, cagr_result>>
storeVars == <<db_dividends, db_prices, db_splits, current_year, filter_out, stats_out>>
callVars == <<call, result>>

InitClassify ==
    /\ yearly_totals_list \in SeqsOf(ClassifyVals, 0, MaxSeriesLen) \cup {TestTotals}
    /\ counts = NoCounts
    /\ pc = "call"
    /\ IdleAdjust /\ IdleCagr /\ IdleStore /\ IdleCall /\ IdleVendor

ClassifyYears ==
    /\ pc = "call"
    /\ pc' = "done"
    /\ counts' = classify_years(yearly_totals_list)
    /\ UNCHANGED <<yearly_totals_list, adjustVars, cagrVars, storeVars, callVars, vendor>>

NextClassify == ClassifyYears

SpecClassify == InitClassify /\ [][NextClassify]_vars

-----------------------------------------------------------------------------
(* Specification SpecAdjust: adjust_dividends applied to bounded lists,    *)
(* in any order and with equal dates allowed                               *)

MaxDivs == 2
MaxSplits == 2

\* 2018-03-15, 2019-06-01, 2020-03-15
AdjustDates == {20180315, 20190601, 20200315}

\* a row of query_dividends without its id: vendor amount and optional price
DividendInputs ==
    [ticker_id : {1}, ex_date : AdjustDates, amount : {R(10), R(12)},
     close_price : {None, R(0), R(100)}]

SplitInputs ==
    [ticker_id : {1}, ex_date : AdjustDates,
     numerator : {R(2), R(3)}, denominator : {R(1), R(2)}]

\* the id of a row is its position in the list handed to adjust_dividends
WithIds(s) ==
    [i \in 1..Len(s) |->
        [id |-> i, ticker_id |-> s[i].ticker_id, ex_date |-> s[i].ex_date,
         amount |-> s[i].amount, close_price |-> s[i].close_price]]

InitAdjust ==
    /\ \E s \in SeqsOf(DividendInputs, 0, MaxDivs) : dividends = WithIds(s)
    /\ splits \in SeqsOf({sp \in SplitInputs : SplitRatio(sp) \in {R(2), Rat(3, 2)}},
                         0, MaxSplits)
    /\ adjusted = <<>>
    /\ pc = "call"
    /\ IdleClassify /\ IdleCagr /\ IdleStore /\ IdleCall /\ IdleVendor

AdjustDividends ==
    /\ pc = "call"
    /\ pc' = "done"
    /\ adjusted' = adjust_dividends(dividends, splits)
    /\ UNCHANGED <<dividends, splits, classifyVars, cagrVars, storeVars, callVars, vendor>>

NextAdjust == AdjustDividends

SpecAdjust == InitAdjust /\ [][NextAdjust]_vars

\* C1: for every dividend event, splits_at_time is the product of the ratios
\* of exactly the splits with ex_date <= the event's ex_date (a same-day split
\* counts as 'at time'), raw_amount is the vendor amount times the product of
\* the ratios of exactly the splits with ex_date > the event's ex_date, the
\* accrued amount is raw_amount * splits_at_time, a present close_price is
\* multiplied by the same 'after' factor, and with no splits all three amounts
\* are the vendor amount.
RatiosWhere(spls, P(_)) ==
    LET sel == SelectSeq(spls, P)
    IN  RatProd([i \in 1..Len(sel) |-> Rat(sel[i].numerator[1] * sel[i].denominator[2],
                                           sel[i].numerator[2] * sel[i].denominator[1])])

InputOf(e) == CHOOSE d \in {dividends[i] : i \in 1..Len(dividends)} : d.id = e.id

C1_SplitFactors ==
    pc = "done" /\ dividends # <<>> =>
        \A k \in 1..Len(adjusted) :
            LET e == adjusted[k]
                d == InputOf(e)
                OnOrBefore(sp) == sp.ex_date <= d.ex_date
                StrictlyAfter(sp) == sp.ex_date > d.ex_date
                at_time == RatiosWhere(splits, OnOrBefore)
                after == RatiosWhere(splits, StrictlyAfter)
            IN  /\ e.splits_at_time = at_time
                /\ e.raw_amount = RatMul(d.amount, after)
                /\ e.amount = RatMul(e.raw_amount, e.splits_at_time)
                /\ (d.close_price # None => e.close_price = RatMul(d.close_price, after))
                /\ (d.close_price = None => e.close_price = None)
                /\ (splits = <<>> =>
                       /\ e.splits_at_time = RatOne
                       /\ e.raw_amount = d.amount /\ e.amount = d.amount)

\* a dividend with a split on its own day, one before and the price restated
C1_Witness ==
    /\ pc = "done"
    /\ \E k \in 1..Len(adjusted) :
           /\ \E j \in 1..Len(splits) : splits[j].ex_date = adjusted[k].ex_date
           /\ \E j \in 1..Len(splits) : splits[j].ex_date > adjusted[k].ex_date
           /\ adjusted[k].splits_at_time # RatOne
           /\ adjusted[k].raw_amount # InputOf(adjusted[k]).amount
           /\ adjusted[k].close_price \notin {None, RatZero, R(100)}

\* C10: the output holds exactly one adjusted event per input event, ordered
\* by ex_date ascending, events of equal ex_date in their input order; equal
\* dates among the splits or the dividends do not make the call fail.
C10_OnePerInputStableOrder ==
    pc = "done" =>
        /\ Len(adjusted) = Len(dividends)
        /\ \A i \in 1..Len(dividends) :
               Cardinality({k \in 1..Len(adjusted) : adjusted[k].id = dividends[i].id}) = 1
        /\ \A k \in 1..Len(adjusted) :
               /\ adjusted[k].ex_date = InputOf(adjusted[k]).ex_date
               /\ adjusted[k].ticker_id = InputOf(adjusted[k]).ticker_id
        /\ \A k, l \in 1..Len(adjusted) :
               k < l =>
                   \/ adjusted[k].ex_date < adjusted[l].ex_date
                   \/ /\ adjusted[k].ex_date = adjusted[l].ex_date
                      /\ adjusted[k].id < adjusted[l].id

\* two dividends of one date and two splits of one date went through
C10_Witness ==
    /\ pc = "done"
    /\ Len(adjusted) = 2
    /\ adjusted[1].ex_date = adjusted[2].ex_date
    /\ adjusted[1].amount # adjusted[2].amount
    /\ Len(splits) = 2 /\ splits[1].ex_date = splits[2].ex_date

-----------------------------------------------------------------------------
(* cli.py: get_cagr_for_years.  A Series of yearly totals with its sorted   *)
(* integer index is a function from the set of its years to the totals.    *)

SetMin(S) == CHOOSE x \in S : \A y \in S : x <= y
SetMax(S) == CHOOSE x \in S : \A y \in S : y <= x

IsNumber(v) == v # None /\ Len(v) \in {2, 4}
IsException(v) == Len(v) = 1

\* line 71: len(yearly_totals) < 2
TooShort_Never(yt) == FALSE

TooShort(yt) == Cardinality(DOMAIN yt) < 2

\* lines 81-82: pd.Series(0.0, index=range(start, stop + 1)) updated with the
\* totals whose year lies in that range
FullRange(yt, start, stop) ==
    [y \in start..stop |-> IF y \in DOMAIN yt THEN yt[y] ELSE RatZero]

\* line 84: the index of full_range[full_range > 0]
NonZeroYears(full_range) == {y \in DOMAIN full_range : RatLT(RatZero, full_range[y])}

\* line 89: non_zero_vals.index[0]
FirstNonZeroYear_NoSkip(full_range) == SetMin(DOMAIN full_range)

FirstNonZeroYear(full_range) == SetMin(NonZeroYears(full_range))

get_cagr_for_years(yt, yrs) ==
    IF TooShort(yt) THEN None
    ELSE IF DOMAIN yt = {} THEN <<"IndexError">>       \* yearly_totals.index[-1]
    ELSE
    LET last_year == SetMax(DOMAIN yt)
        first_dividend_year == SetMin(DOMAIN yt)
        start_year == last_year - yrs
    IN  IF first_dividend_year > start_year THEN None
        ELSE
        LET full_range == FullRange(yt, start_year, last_year)
        IN  IF Cardinality(NonZeroYears(full_range)) < 2 THEN None
            ELSE
            LET first_non_zero_year == FirstNonZeroYear(full_range)
                first_val == full_range[first_non_zero_year]
                last_val == full_range[last_year]
                actual_years == last_year - first_non_zero_year
            IN  IF actual_years <= 0 \/ RatLE(first_val, RatZero) THEN None
                ELSE cagr(first_val, last_val, actual_years)

-----------------------------------------------------------------------------
(* Specification SpecCagr: get_cagr_for_years applied to a bounded series  *)

NumYears == 4
MaxWindow == 4

CagrYears == 2018..(2017 + NumYears)
CagrVals == {R(0), R(10), R(20)}

InitCagr ==
    /\ \E Y \in SUBSET CagrYears : yearly_totals \in [Y -> CagrVals]
    /\ years \in 0..MaxWindow
    /\ cagr_result = None
    /\ pc = "call"
    /\ IdleClassify /\ IdleAdjust /\ IdleStore /\ IdleCall /\ IdleVendor

GetCagrForYears ==
    /\ pc = "call"
    /\ pc' = "done"
    /\ cagr_result' = get_cagr_for_years(yearly_totals, years)
    /\ UNCHANGED <<yearly_totals, years, classifyVars, adjustVars, storeVars, callVars, vendor>>

NextCagr == GetCagrForYears

SpecCagr == InitCagr /\ [][NextCagr]_vars

\* the years of the window [last_year - years, last_year] that hold a
\* strictly positive total
LastYear == SetMax(DOMAIN yearly_totals)
PositiveInWindow ==
    {y \in DOMAIN yearly_totals :
        /\ y >= LastYear - years /\ y <= LastYear
        /\ RatLT(RatZero, yearly_totals[y])}
FirstPositive == SetMin(PositiveInWindow)
ExpectedCagr ==
    cagr(yearly_totals[FirstPositive], yearly_totals[LastYear], LastYear - FirstPositive)

\* C3 as stated: with at least two years holding a strictly positive total
\* inside the window, the windowed CAGR is defined and equals cagr(v_f, v_last,
\* last_year - f), also when the earliest recorded year lies inside the window.
C3_DefinedWithTwoPositives ==
    pc = "done" /\ DOMAIN yearly_totals # {} /\ Cardinality(PositiveInWindow) >= 2 =>
        /\ IsNumber(cagr_result)
        /\ cagr_result = ExpectedCagr

\* C3 as amended: the same, provided the earliest recorded year is not later
\* than last_year - window_years; when it is later the result is None.
C3_DefinedWhenHistoryCoversWindow ==
    pc = "done" /\ DOMAIN yearly_totals # {} /\ Cardinality(PositiveInWindow) >= 2 =>
        IF SetMin(DOMAIN yearly_totals) <= LastYear - years
        THEN IsNumber(cagr_result) /\ cagr_result = ExpectedCagr
        ELSE cagr_result = None

\* leading zero years of the window were skipped and a growth rate came out
C3_Witness ==
    /\ pc = "done"
    /\ DOMAIN yearly_totals # {}
    /\ Cardinality(PositiveInWindow) >= 2
    /\ SetMin(DOMAIN yearly_totals) <= LastYear - years
    /\ FirstPositive > LastYear - years
    /\ IsNumber(cagr_result) /\ cagr_result # RatZero

\* C9 as stated: get_cagr_for_years never raises; it returns None for an empty
\* or single-element series, for a window with fewer than two positive totals,
\* and when the first positive year is not strictly before the last year;
\* otherwise it returns a number.
C9_NoneExactlyWhenStated ==
    pc = "done" =>
        /\ ~IsException(cagr_result)
        /\ IF \/ Cardinality(DOMAIN yearly_totals) < 2
              \/ Cardinality(PositiveInWindow) < 2
              \/ FirstPositive >= LastYear
           THEN cagr_result = None
           ELSE IsNumber(cagr_result)

\* C9 as amended: None also when the earliest recorded year is later than
\* last_year - years.
C9_NoneExactlyWhenStatedOrShortHistory ==
    pc = "done" =>
        /\ ~IsException(cagr_result)
        /\ IF \/ Cardinality(DOMAIN yearly_totals) < 2
              \/ SetMin(DOMAIN yearly_totals) > LastYear - years
              \/ Cardinality(PositiveInWindow) < 2
              \/ FirstPositive >= LastYear
           THEN cagr_result = None
           ELSE IsNumber(cagr_result)

\* the helper ran on a single-element series with a positive window
C9_Witness ==
    /\ pc = "done"
    /\ Cardinality(DOMAIN yearly_totals) = 1
    /\ years > 0
    /\ cagr_result = None

-----------------------------------------------------------------------------
(* db.py: the three tables and the join read by the commands.  The         *)
(* surrogate key id of a row is left out of the tables; a ticker's symbol  *)
(* is written as its ticker_id.                                            *)

Tickers == {1, 2}

\* INSERT OR IGNORE: the UNIQUE(ticker_id, ex_date) constraint rejects the row
HasKey(table, ticker_id, ex_date) ==
    \E r \in table : r.ticker_id = ticker_id /\ r.ex_date = ex_date

insert_dividend_Replace(table, ticker_id, ex_date, amount) ==
    {r \in table : ~(r.ticker_id = ticker_id /\ r.ex_date = ex_date)}
        \cup {[ticker_id |-> ticker_id, ex_date |-> ex_date, amount |-> amount]}

insert_dividend(table, ticker_id, ex_date, amount) ==
    IF HasKey(table, ticker_id, ex_date) THEN table
    ELSE table \cup {[ticker_id |-> ticker_id, ex_date |-> ex_date, amount |-> amount]}

insert_split(table, ticker_id, ex_date, numerator, denominator) ==
    IF HasKey(table, ticker_id, ex_date) THEN table
    ELSE table \cup {[ticker_id |-> ticker_id, ex_date |-> ex_date,
                      numerator |-> numerator, denominator |-> denominator]}

\* INSERT OR REPLACE on PRIMARY KEY(ticker_id, ex_date)
insert_price(table, ticker_id, ex_date, close_price) ==
    {r \in table : ~(r.ticker_id = ticker_id /\ r.ex_date = ex_date)}
        \cup {[ticker_id |-> ticker_id, ex_date |-> ex_date, close_price |-> close_price]}

\* the rows of a result set, listed by ticker and date (ORDER BY ex_date ASC
\* for the splits; the dividends have no ORDER BY and are sorted by their
\* readers, ex_date being unique per ticker)
RECURSIVE RowsInOrder(_)
RowsInOrder(rows) ==
    IF rows = {} THEN <<>>
    ELSE LET first == CHOOSE r \in rows : \A q \in rows :
                          \/ r.ex_date < q.ex_date
                          \/ r.ex_date = q.ex_date /\ r.ticker_id <= q.ticker_id
         IN  <<first>> \o RowsInOrder(rows \ {first})

\* LEFT JOIN prices p ON d.ticker_id = p.ticker_id AND d.ex_date = p.ex_date
JoinedPrice(d) ==
    IF HasKey(db_prices, d.ticker_id, d.ex_date)
    THEN (CHOOSE p \in db_prices :
              p.ticker_id = d.ticker_id /\ p.ex_date = d.ex_date).close_price
    ELSE None

\* query_dividends("WHERE t.symbol = ?") when symbol is given, else all rows
query_dividends(symbol) ==
    LET rows == RowsInOrder({d \in db_dividends : symbol = None \/ <<d.ticker_id>> = symbol})
    IN  [i \in 1..Len(rows) |->
            [id |-> i, ticker_id |-> rows[i].ticker_id, ex_date |-> rows[i].ex_date,
             amount |-> rows[i].amount, close_price |-> JoinedPrice(rows[i])]]

get_splits(ticker_id) == RowsInOrder({sp \in db_splits : sp.ticker_id = ticker_id})

-----------------------------------------------------------------------------
(* cli.py: the metric pipeline shared by filter and stats                  *)

\* df['year'] = pd.to_datetime(df['ex_date']).dt.year
YearOf(ex_date) == ex_date \div 10000

InYear(group, yr) == SelectSeq(group, LAMBDA r : YearOf(r.ex_date) = yr)

\* group[group['year'] < current_year].groupby('year')['amount'].sum().sort_index()
YearlyTotals_WithCurrentYear(group, cy) ==
    LET yrs == {YearOf(group[i].ex_date) : i \in 1..Len(group)}
    IN  [y \in {z \in yrs : z <= cy} |->
            LET rows == InYear(group, y)
            IN  RatSum([i \in 1..Len(rows) |-> rows[i].amount])]

YearlyTotals(group, cy) ==
    LET yrs == {YearOf(group[i].ex_date) : i \in 1..Len(group)}
    IN  [y \in {z \in yrs : z < cy} |->
            LET rows == InYear(group, y)
            IN  RatSum([i \in 1..Len(rows) |-> rows[i].amount])]

\* lines 217-221 and 406-410: pd.Series(0.0, index=range(min_year, max_year + 1)),
\* updated with the totals, as a list
FillYears_NoGaps(yt) ==
    LET rows == RowsInOrder({[ex_date |-> y, ticker_id |-> 0, total |-> yt[y]] : y \in DOMAIN yt})
    IN  [i \in 1..Len(rows) |-> rows[i].total]

FillYears(yt) ==
    LET min_year == SetMin(DOMAIN yt)
        max_year == SetMax(DOMAIN yt)
    IN  [i \in 1..(max_year - min_year + 1) |->
            IF (min_year + i - 1) \in DOMAIN yt THEN yt[min_year + i - 1] ELSE RatZero]

\* lines 180-188: total raw dividend of a year over the price at its last ex-date;
\* None when the year has no row or its last row has no price
YieldOfYear(group, yr) ==
    LET yr_divs == InYear(group, yr)
    IN  IF Len(yr_divs) = 0 THEN None
        ELSE LET total_div == RatSum([i \in 1..Len(yr_divs) |-> yr_divs[i].raw_amount])
                 last_div_row == yr_divs[Len(yr_divs)]
             IN  IF last_div_row.close_price # None
                 THEN dividend_yield(total_div, last_div_row.close_price)
                 ELSE None

\* round(x, 2); None has no __round__.  The decimal expansion of an
\* irrational root is not computed, the root stands for its rounded value.
round2(x) ==
    IF x = None THEN <<"TypeError">>
    ELSE IF Len(x) = 4 THEN x
    ELSE LET whole == x[1] \div x[2]
             hundredths == ((x[1] % x[2]) * 200 + x[2]) \div (2 * x[2])
         IN  RatAdd(R(whole), Rat(hundredths, 100))

\* "N/A" in a result row
NA == <<"N/A", 0, 0>>

RoundOrNA(x) == IF x # None THEN round2(x) ELSE NA

\* ---- the --condition expression (lines 157-163 and 255-275) --------------
\* The text of --condition is handed to Python's eval.  The model writes an
\* expression as its syntax tree:
\*   <<"num", r>>          a numeric literal
\*   <<"name", s>>         an identifier, s as the user typed it
\*   <<"tuple">>           the empty tuple ()
\*   <<"attr", x, s>>      x.s
\*   <<"call", x>>         x()
\*   <<"op", o, x, y>>     x o y, o an arithmetic, comparison or boolean operator
\*   <<"malformed">>       a text that is not an expression, such as 'up >'
\* A value is a number, None, an exception <<name>> or an object <<"obj", what, 0>>.

EmptyTuple == <<"obj", "()", 0>>
TupleClass == <<"obj", "class tuple", 0>>
ObjectClass == <<"obj", "class object", 0>>
SubclassesMethod == <<"obj", "object.__subclasses__", 0>>
\* every class loaded in the interpreter, importers and os wrappers included
LoadedClasses == <<"obj", "list of the loaded classes", 0>>

\* lines 160-163: str.replace of the hyphenated field names; the six texts
\* have no blank, so each is written by the user as one name
Underscored(name) ==
    CASE name = "years-up" -> "years_up"
      [] name = "years-stalled" -> "years_stalled"
      [] name = "years-reduced" -> "years_reduced"
      [] name = "years-stopped" -> "years_stopped"
      [] name = "avg-yield" -> "avg_yield"
      [] name = "cagr-overall" -> "cagr_overall"
      [] OTHER -> name

RECURSIVE ReplaceFields(_)
ReplaceFields(x) ==
    CASE x[1] = "name" -> <<"name", Underscored(x[2])>>
      [] x[1] = "attr" -> <<"attr", ReplaceFields(x[2]), x[3]>>
      [] x[1] = "call" -> <<"call", ReplaceFields(x[2])>>
      [] x[1] = "op" -> <<"op", x[2], ReplaceFields(x[3]), ReplaceFields(x[4])>>
      [] OTHER -> x

\* the reserved words a name of the eval_vars can collide with
PyKeywords == {"yield"}

\* eval compiles the text first: SyntaxError before anything is evaluated
RECURSIVE HasSyntaxError(_)
HasSyntaxError(x) ==
    CASE x[1] = "malformed" -> TRUE
      [] x[1] = "name" -> x[2] \in PyKeywords
      [] x[1] = "attr" -> HasSyntaxError(x[2])
      [] x[1] = "call" -> HasSyntaxError(x[2])
      [] x[1] = "op" -> HasSyntaxError(x[3]) \/ HasSyntaxError(x[4])
      [] OTHER -> FALSE

\* bool(v): None, zero and the empty tuple are false
PyTruthy(v) == v # None /\ v # RatZero /\ v # EmptyTuple

\* a < b for two numbers, each a rational or a root
ValLT(a, b) ==
    IF Len(a) = 2 /\ Len(b) = 2 THEN RatLT(a, b)
    ELSE IF Len(b) = 2 THEN NumLT(a, b)
    ELSE IF Len(a) = 2
         THEN ~NumLT(b, a)
         ELSE RatLT(RatPow(<<a[3], a[4]>>, b[2]), RatPow(<<b[3], b[4]>>, a[2]))

\* True and False are the numbers 1 and 0
PyBool(b) == IF b THEN RatOne ELSE RatZero

\* a comparison: == is defined on every pair, an ordering on numbers only
PyCompare(o, a, b) ==
    IF o = "==" THEN PyBool(a = b)
    ELSE IF ~(IsNumber(a) /\ IsNumber(b)) THEN <<"TypeError">>
    ELSE CASE o = "<" -> PyBool(ValLT(a, b))
           [] o = ">" -> PyBool(ValLT(b, a))
           [] o = "<=" -> PyBool(a = b \/ ValLT(a, b))
           [] o = ">=" -> PyBool(a = b \/ ValLT(b, a))

\* arithmetic on two rationals (the enumerated conditions do no arithmetic
\* on an irrational CAGR)
PyArith(o, a, b) ==
    IF ~(IsNumber(a) /\ IsNumber(b)) THEN <<"TypeError">>
    ELSE CASE o = "+" /\ Len(a) = 2 /\ Len(b) = 2 -> RatAdd(a, b)
           [] o = "-" /\ Len(a) = 2 /\ Len(b) = 2 -> RatSub(a, b)
           [] o = "*" /\ Len(a) = 2 /\ Len(b) = 2 -> RatMul(a, b)
           [] o = "/" /\ Len(a) = 2 /\ b = RatZero -> <<"ZeroDivisionError">>
           [] o = "/" /\ Len(a) = 2 /\ Len(b) = 2 /\ b # RatZero -> RatDiv(a, b)

\* getattr(v, s), for the attributes the enumerated conditions name
PyGetAttr(v, s) ==
    CASE s = "real" /\ IsNumber(v) -> v
      [] s = "__class__" /\ v = EmptyTuple -> TupleClass
      [] s = "__base__" /\ v = TupleClass -> ObjectClass
      [] s = "__subclasses__" /\ v = ObjectClass -> SubclassesMethod
      [] s = "nosuch" -> <<"AttributeError">>

\* f(): a number, None and a tuple are not callable
PyCall(f) ==
    CASE f = SubclassesMethod -> LoadedClasses
      [] IsNumber(f) \/ f = None \/ f = EmptyTuple -> <<"TypeError">>

\* the evaluation of a compiled expression in the locals env; the globals
\* hold nothing but an empty __builtins__
RECURSIVE PyEvalTree(_, _)
PyEvalTree(x, env) ==
    CASE x[1] = "num" -> x[2]
      [] x[1] = "name" -> IF x[2] \in DOMAIN env THEN env[x[2]] ELSE <<"NameError">>
      [] x[1] = "tuple" -> EmptyTuple
      [] x[1] = "attr" ->
            LET v == PyEvalTree(x[2], env)
            IN  IF IsException(v) THEN v ELSE PyGetAttr(v, x[3])
      [] x[1] = "call" ->
            LET f == PyEvalTree(x[2], env)
            IN  IF IsException(f) THEN f ELSE PyCall(f)
      [] x[1] = "op" ->
            LET a == PyEvalTree(x[3], env)
            IN  IF IsException(a) THEN a
                ELSE IF x[2] = "and" THEN (IF PyTruthy(a) THEN PyEvalTree(x[4], env) ELSE a)
                ELSE IF x[2] = "or" THEN (IF PyTruthy(a) THEN a ELSE PyEvalTree(x[4], env))
                ELSE LET b == PyEvalTree(x[4], env)
                     IN  IF IsException(b) THEN b
                         ELSE IF x[2] \in {"+", "-", "*", "/"} THEN PyArith(x[2], a, b)
                         ELSE PyCompare(x[2], a, b)

\* eval(eval_condition, {"__builtins__": {}}, eval_vars)
PyEval(x, env) ==
    IF HasSyntaxError(x) THEN <<"SyntaxError">> ELSE PyEvalTree(x, env)

\* `c or 0`
OrZero_Unchanged(c) == c

OrZero(c) == IF Truthy(c) THEN c ELSE RatZero

\* the eval_vars of an iteration that has not reached the expression
NoEvalVars ==
    [up |-> None, years_up |-> None, stalled |-> None, years_stalled |-> None,
     reduced |-> None, years_reduced |-> None, stopped |-> None, years_stopped |-> None,
     yield |-> None, last_yield |-> None, yield_5yr |-> None, five_yr_yield |-> None,
     cagr |-> None, cagr_overall |-> None,
     c3 |-> None, c5 |-> None, c10 |-> None, c15 |-> None, c20 |-> None, c30 |-> None,
     price |-> None, shares |-> None]

\* the options of the filter command; an option not given is None, a given
\* number is a rational, --symbol is <<ticker>>
NoOpts ==
    [symbol |-> None, min_yield |-> None, max_yield |-> None, cagr_min |-> None,
     cagr_3yr_min |-> None, cagr_5yr_min |-> None, cagr_10yr_min |-> None,
     years_up |-> None, years_stalled |-> None, years_reduced |-> None,
     years_stopped |-> None, condition |-> None]

\* the locals of one iteration of the loop over df.groupby('symbol')
NoEval ==
    [outcome |-> "skip", symbol |-> 0, shares |-> RatOne,
     last_yield |-> RatZero, five_yr_yield |-> RatZero,
     yearly_totals |-> <<>>, yearly_totals_list |-> <<>>, counts |-> NoCounts,
     cagr_overall |-> None, c3 |-> None, c5 |-> None, c10 |-> None,
     c15 |-> None, c20 |-> None, c30 |-> None,
     evaluated |-> FALSE, eval_vars |-> NoEvalVars, value |-> None, warning |-> None]

\* lines 169-173: the product of all the splits of the ticker
FinalShares(all_splits) ==
    RatProd([i \in 1..Len(all_splits) |-> SplitRatio(all_splits[i])])

\* lines 190-204: the mean of the yearly yields of the last five years
FiveYearYield(group, cy) ==
    LET yrs == {yr \in (cy - 5)..(cy - 1) : YieldOfYear(group, yr) # None}
        ys == RowsInOrder({[ex_date |-> yr, ticker_id |-> 0, y |-> YieldOfYear(group, yr)] : yr \in yrs})
    IN  IF yrs = {} THEN RatZero
        ELSE RatDiv(RatSum([i \in 1..Len(ys) |-> ys[i].y]), R(Len(ys)))

\* line 236 and line 395: the overall CAGR
OverallCagr(yt) ==
    IF Cardinality(DOMAIN yt) >= 2
    THEN get_cagr_for_years(yt, SetMax(DOMAIN yt) - SetMin(DOMAIN yt))
    ELSE RatZero

\* The body of the loop of filter for one symbol (lines 166-295), cut at its
\* `continue` statements.  e holds the locals computed so far; its outcome
\* stays "skip" when a threshold leaves the iteration.

\* lines 277-295: the result row
EvalRow(e) ==
    \* round(cagr_overall, 2) with cagr_overall = None
    IF e.cagr_overall = None THEN [e EXCEPT !.outcome = "TypeError"]
    ELSE [e EXCEPT !.outcome = "row"]

\* lines 257-269: the names the expression can read; the current price of
\* the tickers table is not kept by the model, `curr_price or 0` is 0
EvalVars(e) ==
    [up |-> R(e.counts.up), years_up |-> R(e.counts.up),
     stalled |-> R(e.counts.stalled), years_stalled |-> R(e.counts.stalled),
     reduced |-> R(e.counts.reduced), years_reduced |-> R(e.counts.reduced),
     stopped |-> R(e.counts.stopped), years_stopped |-> R(e.counts.stopped),
     yield |-> e.last_yield, last_yield |-> e.last_yield,
     yield_5yr |-> e.five_yr_yield, five_yr_yield |-> e.five_yr_yield,
     cagr |-> e.cagr_overall, cagr_overall |-> e.cagr_overall,
     c3 |-> OrZero(e.c3), c5 |-> OrZero(e.c5), c10 |-> OrZero(e.c10),
     c15 |-> OrZero(e.c15), c20 |-> OrZero(e.c20), c30 |-> OrZero(e.c30),
     price |-> RatZero, shares |-> e.shares]

\* lines 270-275: the try around eval; e.value is what eval returned or raised
EvalOutcome_Uncaught(e) ==
    IF IsException(e.value) THEN [e EXCEPT !.outcome = "TypeError"]
    ELSE IF ~PyTruthy(e.value) THEN e
    ELSE EvalRow(e)

EvalOutcome(e) ==
    \* except Exception: the warning names the symbol and the error
    IF IsException(e.value) THEN [e EXCEPT !.warning = <<e.symbol, e.value[1]>>]
    ELSE IF ~PyTruthy(e.value) THEN e
    ELSE EvalRow(e)

\* lines 255-275: the expression, when one is given
EvalCondition(e, opts) ==
    IF opts.condition # None
    THEN EvalOutcome([e EXCEPT !.evaluated = TRUE,
                               !.eval_vars = EvalVars(e),
                               !.value = PyEval(ReplaceFields(opts.condition), EvalVars(e))])
    ELSE EvalRow(e)

\* lines 241-253: the windowed CAGRs and their thresholds
EvalWindows(e, opts) ==
    IF opts.cagr_3yr_min # None /\ (e.c3 = None \/ NumLT(e.c3, opts.cagr_3yr_min)) THEN e
    ELSE IF opts.cagr_5yr_min # None /\ (e.c5 = None \/ NumLT(e.c5, opts.cagr_5yr_min)) THEN e
    ELSE IF opts.cagr_10yr_min # None /\ (e.c10 = None \/ NumLT(e.c10, opts.cagr_10yr_min)) THEN e
    ELSE EvalCondition(e, opts)

\* lines 235-246: the overall CAGR and its threshold
EvalCagr(e, opts) ==
    \* None < float
    IF opts.cagr_min # None /\ e.cagr_overall = None THEN [e EXCEPT !.outcome = "TypeError"]
    ELSE IF opts.cagr_min # None /\ NumLT(e.cagr_overall, opts.cagr_min) THEN e
    ELSE EvalWindows([e EXCEPT !.c3 = get_cagr_for_years(e.yearly_totals, 3),
                               !.c5 = get_cagr_for_years(e.yearly_totals, 5),
                               !.c10 = get_cagr_for_years(e.yearly_totals, 10),
                               !.c15 = get_cagr_for_years(e.yearly_totals, 15),
                               !.c20 = get_cagr_for_years(e.yearly_totals, 20),
                               !.c30 = get_cagr_for_years(e.yearly_totals, 30)],
                     opts)

\* lines 223-236: the classification and its thresholds
EvalCounts(e, opts) ==
    IF opts.years_up # None /\ RatLT(R(e.counts.up), opts.years_up) THEN e
    ELSE IF opts.years_stalled # None /\ RatLT(opts.years_stalled, R(e.counts.stalled)) THEN e
    ELSE IF opts.years_reduced # None /\ RatLT(opts.years_reduced, R(e.counts.reduced)) THEN e
    ELSE IF opts.years_stopped # None /\ RatLT(opts.years_stopped, R(e.counts.stopped)) THEN e
    ELSE EvalCagr([e EXCEPT !.cagr_overall = OverallCagr(e.yearly_totals)], opts)

\* lines 216-221: the gap-filled list of the yearly totals
EvalFill(e, opts) ==
    \* range(min_year, max_year + 1) with min_year = nan
    IF DOMAIN e.yearly_totals = {} THEN [e EXCEPT !.outcome = "TypeError"]
    ELSE EvalCounts([e EXCEPT !.yearly_totals_list = FillYears(e.yearly_totals),
                              !.counts = classify_years(FillYears(e.yearly_totals))],
                    opts)

\* lines 206-214: the yield thresholds and the yearly totals
EvalYield(e, group, opts, cy) ==
    IF opts.min_yield # None /\ RatLT(e.last_yield, opts.min_yield) THEN e
    ELSE IF opts.max_yield # None /\ RatLT(opts.max_yield, e.last_yield) THEN e
    ELSE EvalFill([e EXCEPT !.yearly_totals = YearlyTotals(group, cy)], opts)

\* lines 182-188: last_yield stays 0 without a row or a price in last_year
LastYield(group, cy) ==
    IF YieldOfYear(group, cy - 1) = None THEN RatZero ELSE YieldOfYear(group, cy - 1)

\* lines 166-204: group is the adjusted rows of the symbol
EvalSecurity(sym, group, opts, cy) ==
    EvalYield([NoEval EXCEPT !.symbol = sym,
                             !.shares = FinalShares(get_splits(sym)),
                             !.last_yield = LastYield(group, cy),
                             !.five_yr_yield = FiveYearYield(group, cy)],
              group, opts, cy)

\* lines 277-294: the result row of an evaluation that reached the end
ResultRow(e) ==
    [Symbol |-> e.symbol, Price |-> NA, Shares |-> round2(e.shares),
     Yield |-> round2(e.last_yield), Yield5 |-> round2(e.five_yr_yield),
     CagrOverall |-> round2(e.cagr_overall),
     c3 |-> RoundOrNA(e.c3), c5 |-> RoundOrNA(e.c5), c10 |-> RoundOrNA(e.c10),
     c15 |-> RoundOrNA(e.c15), c20 |-> RoundOrNA(e.c20), c30 |-> RoundOrNA(e.c30),
     up |-> e.counts.up, stalled |-> e.counts.stalled,
     reduced |-> e.counts.reduced, stopped |-> e.counts.stopped]

\* lines 144-150: the adjusted rows of one ticker
AdjustedGroup(rows, sym) ==
    adjust_dividends(SelectSeq(rows, LAMBDA r : r.ticker_id = sym), get_splits(sym))

\* the loop over df.groupby('symbol'), in symbol order, from symbol sym on; an
\* exception leaves the loop and the command
RECURSIVE FilterLoop(_, _, _, _, _)
FilterLoop(rows, syms, opts, cy, acc) ==
    IF syms = {} THEN [acc EXCEPT !.status = "ok"]
    ELSE LET sym == SetMin(syms)
             e == EvalSecurity(sym, AdjustedGroup(rows, sym), opts, cy)
             acc1 == [acc EXCEPT !.evals = Append(@, e)]
         IN  IF e.outcome = "TypeError" THEN [acc1 EXCEPT !.status = "raised"]
             ELSE IF e.outcome = "row"
             THEN FilterLoop(rows, syms \ {sym}, opts, cy,
                             [acc1 EXCEPT !.results = Append(@, ResultRow(e))])
             ELSE FilterLoop(rows, syms \ {sym}, opts, cy, acc1)

\* the filter command
filter(opts, cy) ==
    LET rows == query_dividends(opts.symbol)
        out == [status |-> "nodata", opts |-> opts, evals |-> <<>>, results |-> <<>>]
    IN  IF Len(rows) = 0 THEN out
        ELSE FilterLoop(rows, {rows[i].ticker_id : i \in 1..Len(rows)}, opts, cy, out)

\* f"{v:.2f}%" if v else "N/A"
ShowCagr(v) == IF v = None \/ v = RatZero THEN NA ELSE round2(v)

\* lines 405-416 of stats: the classification of the completed years
StatsClassify(out, yearly_forward_complete) ==
    \* range(min_year, max_year + 1) with min_year = nan
    IF DOMAIN yearly_forward_complete = {} THEN [out EXCEPT !.status = "raised"]
    ELSE [out EXCEPT !.status = "ok",
                     !.yearly_totals_list = FillYears(yearly_forward_complete),
                     !.counts = classify_years(FillYears(yearly_forward_complete))]

\* lines 388-403 of stats: the CAGR table, as printed
StatsCagrs(yearly_forward_complete) ==
    <<ShowCagr(OverallCagr(yearly_forward_complete)),
      ShowCagr(get_cagr_for_years(yearly_forward_complete, 3)),
      ShowCagr(get_cagr_for_years(yearly_forward_complete, 5)),
      ShowCagr(get_cagr_for_years(yearly_forward_complete, 10)),
      ShowCagr(get_cagr_for_years(yearly_forward_complete, 15)),
      ShowCagr(get_cagr_for_years(yearly_forward_complete, 20)),
      ShowCagr(get_cagr_for_years(yearly_forward_complete, 30))>>

StatsOf(symbol, df_adjusted, cy) ==
    StatsClassify([status |-> "nodata", symbol |-> symbol, adjusted |-> df_adjusted,
                   cagrs |-> StatsCagrs(YearlyTotals(df_adjusted, cy)),
                   yearly_totals_list |-> <<>>, counts |-> NoCounts],
                  YearlyTotals(df_adjusted, cy))

\* the stats command for a symbol of the tickers table
stats(symbol, cy) ==
    IF Len(query_dividends(<<symbol>>)) = 0
    THEN [status |-> "nodata", symbol |-> symbol, adjusted |-> <<>>,
          cagrs |-> <<>>, yearly_totals_list |-> <<>>, counts |-> NoCounts]
    ELSE StatsOf(symbol, adjust_dividends(query_dividends(<<symbol>>), get_splits(symbol)), cy)

-----------------------------------------------------------------------------
(* Specification Spec: the store is filled by the inserts of the update    *)
(* command, the year advances, and filter and stats read the store         *)

MaxDividendRows == 2
MaxPriceRows == 1
MaxSplitRows == 1
MaxYearsOn == 1

FirstCurrentYear == 2021

\* 2018-03-15, 2020-03-15, 2021-03-15
DividendDates == {20180315, 20200315, 20210315}
\* 2019-06-01
SplitDates == {20190601}
\* 0, 8e-7 (below the epsilon of classify_years), 10 and 12
Amounts == {R(0), Rat(1, 1250000), R(10), R(12)}
Prices == {R(100)}

\* the texts given to --condition:
\*   years-up >= 1 and c3 >= 0
CondUpAndC3 ==
    <<"op", "and", <<"op", ">=", <<"name", "years-up">>, <<"num", R(1)>>>>,
                   <<"op", ">=", <<"name", "c3">>, <<"num", R(0)>>>>>>
\*   up / last_yield >= 0
CondRatio ==
    <<"op", ">=", <<"op", "/", <<"name", "up">>, <<"name", "last_yield">>>>, <<"num", R(0)>>>>
\*   nosuch > 1
CondUnknownName == <<"op", ">", <<"name", "nosuch">>, <<"num", R(1)>>>>
\*   up >
CondMalformed == <<"malformed">>
\*   up.real >= 0
CondAttribute == <<"op", ">=", <<"attr", <<"name", "up">>, "real">>, <<"num", R(0)>>>>
\*   ().__class__.__base__.__subclasses__()
CondSubclasses ==
    <<"call", <<"attr", <<"attr", <<"attr", <<"tuple">>, "__class__">>, "__base__">>,
                "__subclasses__">>>>

Conditions ==
    {CondUpAndC3, CondRatio, CondUnknownName, CondMalformed, CondAttribute, CondSubclasses}

FilterOpts ==
    {NoOpts,
     [NoOpts EXCEPT !.min_yield = R(5)],
     [NoOpts EXCEPT !.cagr_min = R(5)],
     [NoOpts EXCEPT !.cagr_3yr_min = R(0)],
     [NoOpts EXCEPT !.years_stopped = R(0)]}
        \cup {[NoOpts EXCEPT !.condition = c] : c \in Conditions}

Init ==
    /\ db_dividends = {} /\ db_prices = {} /\ db_splits = {}
    /\ current_year = FirstCurrentYear
    /\ filter_out = NoOutput /\ stats_out = NoOutput
    /\ pc = "idle"
    /\ IdleClassify /\ IdleAdjust /\ IdleCagr /\ IdleCall /\ IdleVendor

otherVars == <<pc, classifyVars, adjustVars, cagrVars, callVars, vendor>>

\* no command is running: the last one has exited
AtPrompt == filter_out = NoOutput /\ stats_out = NoOutput

InsertDividend ==
    \E t \in Tickers, d \in DividendDates, a \in Amounts :
        /\ AtPrompt
        /\ Cardinality(db_dividends) < MaxDividendRows
        /\ db_dividends' = insert_dividend(db_dividends, t, d, a)
        /\ UNCHANGED <<db_prices, db_splits, current_year, filter_out, stats_out, otherVars>>

InsertPrice ==
    \E t \in Tickers, d \in DividendDates, p \in Prices :
        /\ AtPrompt
        /\ Cardinality(db_prices) < MaxPriceRows
        /\ db_prices' = insert_price(db_prices, t, d, p)
        /\ UNCHANGED <<db_dividends, db_splits, current_year, filter_out, stats_out, otherVars>>

InsertSplit ==
    \E t \in Tickers, d \in SplitDates :
        /\ AtPrompt
        /\ Cardinality(db_splits) < MaxSplitRows
        /\ db_splits' = insert_split(db_splits, t, d, R(2), R(1))
        /\ UNCHANGED <<db_dividends, db_prices, current_year, filter_out, stats_out, otherVars>>

NewYear ==
    /\ AtPrompt
    /\ current_year < FirstCurrentYear + MaxYearsOn
    /\ current_year' = current_year + 1
    /\ UNCHANGED <<db_dividends, db_prices, db_splits, filter_out, stats_out, otherVars>>

Filter ==
    \E opts \in FilterOpts :
        /\ AtPrompt
        /\ filter_out' = filter(opts, current_year)
        /\ UNCHANGED <<db_dividends, db_prices, db_splits, current_year, stats_out, otherVars>>

Stats ==
    \E symbol \in Tickers :
        /\ AtPrompt
        /\ stats_out' = stats(symbol, current_year)
        /\ UNCHANGED <<db_dividends, db_prices, db_splits, current_year, filter_out, otherVars>>

\* the command has printed its output and its process ends
Exit ==
    /\ ~AtPrompt
    /\ filter_out' = NoOutput /\ stats_out' = NoOutput
    /\ UNCHANGED <<db_dividends, db_prices, db_splits, current_year, otherVars>>

Next ==
    InsertDividend \/ InsertPrice \/ InsertSplit \/ NewYear \/ Filter \/ Stats \/ Exit

Spec == Init /\ [][Next]_vars

\* C5: every pair that classify_years counts as 'reduced' has a current total
\* strictly lower than the previous one and strictly greater than zero; no
\* pair whose current total is greater than the previous one is counted as
\* 'reduced'.
LowerPositivePairs(s) ==
    {i \in 1..(Len(s) - 1) : RatLT(s[i + 1], s[i]) /\ RatLT(RatZero, s[i + 1])}

C5_ReducedIsLowerAndPositive ==
    pc = "done" =>
        /\ counts.reduced <= Cardinality(LowerPositivePairs(yearly_totals_list))
        /\ \A i \in 1..(Len(yearly_totals_list) - 1) :
               RatLT(yearly_totals_list[i], yearly_totals_list[i + 1]) =>
                   classify_years(<<yearly_totals_list[i], yearly_totals_list[i + 1]>>).reduced = 0

\* C6: over the consecutive pairs (prev, cur), cur < 1e-6 counts as stopped,
\* otherwise cur > prev + 1e-6 as up, otherwise |cur - prev| < 1e-6 as stalled,
\* otherwise as reduced; the four counts sum to len - 1, a series shorter than
\* 2 gives all zeros, and [10, 12, 12, 8, 0, 5] gives up 2, stalled 1,
\* reduced 1, stopped 1.
PairsWhere(s, P(_, _)) == Cardinality({i \in 1..(Len(s) - 1) : P(s[i], s[i + 1])})

IsStopped(prev, cur) == RatLT(cur, Eps)
IsUp(prev, cur) == ~RatLT(cur, Eps) /\ RatLT(RatAdd(prev, Eps), cur)
IsStalled(prev, cur) ==
    /\ ~RatLT(cur, Eps) /\ ~RatLT(RatAdd(prev, Eps), cur)
    /\ RatLT(RatSub(cur, prev), Eps) /\ RatLT(RatSub(prev, cur), Eps)
IsReduced(prev, cur) ==
    /\ ~RatLT(cur, Eps) /\ ~RatLT(RatAdd(prev, Eps), cur)
    /\ (RatLE(Eps, RatSub(cur, prev)) \/ RatLE(Eps, RatSub(prev, cur)))

-----------------------------------------------------------------------------
(* Claims about the commands                                               *)

RanFilter == filter_out.status \in {"ok", "raised"}
RanStats == stats_out.status \in {"ok", "raised"}

SymbolsWithRows == {d.ticker_id : d \in db_dividends}

\* the completed calendar years in which ticker t has a dividend row
CompletedYears(t) ==
    {YearOf(d.ex_date) : d \in {r \in db_dividends :
                                   r.ticker_id = t /\ YearOf(r.ex_date) < current_year}}

\* the store holds the scenario for ticker t: vendor amounts 10 on 2018-03-15
\* and 12 on 2020-03-15, nothing else, and the 2:1 split of 2019-06-01
Scenario(t) ==
    /\ {d \in db_dividends : d.ticker_id = t}
           = {[ticker_id |-> t, ex_date |-> 20180315, amount |-> R(10)],
              [ticker_id |-> t, ex_date |-> 20200315, amount |-> R(12)]}
    /\ {sp \in db_splits : sp.ticker_id = t}
           = {[ticker_id |-> t, ex_date |-> 20190601,
               numerator |-> R(2), denominator |-> R(1)]}

ScenarioShown(accrued2018) ==
    RanStats /\ Scenario(stats_out.symbol) =>
        /\ stats_out.status = "ok"
        /\ Len(stats_out.adjusted) = 2
        /\ stats_out.adjusted[1].splits_at_time = R(1)
        /\ stats_out.adjusted[2].splits_at_time = R(2)
        /\ stats_out.adjusted[1].amount = accrued2018
        /\ stats_out.adjusted[2].amount = R(24)
        /\ stats_out.counts = [up |-> 1, stalled |-> 0, reduced |-> 0, stopped |-> 1]
        /\ IsStopped(stats_out.yearly_totals_list[1], stats_out.yearly_totals_list[2])
        /\ IsUp(stats_out.yearly_totals_list[2], stats_out.yearly_totals_list[3])

\* C2 as stated: in the scenario (vendor amounts 10 in 2018 and 12 in 2020, a
\* 2:1 split on 2019-06-01) shares_at_time is 1.0 and 2.0, the accrued amounts
\* are 10 and 24, and the gap-filled yearly totals count one 'stopped'
\* transition into 2019 followed by one 'up' transition into 2020.
C2_ScenarioAccrued10And24 == ScenarioShown(R(10))

\* C2 as amended: the accrued amounts are 20 and 24 (the 2018 vendor amount is
\* multiplied by the later split), the rest as stated.
C2_ScenarioAccrued20And24 == ScenarioShown(R(20))

C2_Witness ==
    /\ RanStats /\ Scenario(stats_out.symbol)
    /\ stats_out.status = "ok"
    /\ stats_out.yearly_totals_list = <<R(20), R(0), R(24)>>

\* C4: no security's data aborts a filter run: the command finishes and
\* every security with rows is evaluated; an undefined metric is reported as
\* undefined or the security is left out, nothing is raised.
C4_FilterNeverAborts ==
    filter_out.status # "none" =>
        /\ filter_out.status # "raised"
        /\ filter_out.opts.symbol = None =>
               {filter_out.evals[i].symbol : i \in 1..Len(filter_out.evals)} = SymbolsWithRows

\* the series handed to classify_years has one entry per calendar year from
\* the first to the last completed year with data of ticker t, in year order:
\* the accrued total of the year, 0 for a year without a row
AccruedTotal(t, y) ==
    LET rows == RowsInOrder({d \in db_dividends : d.ticker_id = t /\ YearOf(d.ex_date) = y})
        all == get_splits(t)
        shares == RatProd([i \in 1..Len(all) |-> Rat(all[i].numerator[1], all[i].denominator[1])])
    IN  RatMul(RatSum([i \in 1..Len(rows) |-> rows[i].amount]), shares)

OneEntryPerYear(list, t) ==
    LET Y == CompletedYears(t)
        first == SetMin(Y)
    IN  /\ Len(list) = SetMax(Y) - first + 1
        /\ \A i \in 1..Len(list) :
               list[i] = IF (first + i - 1) \in Y THEN AccruedTotal(t, first + i - 1)
                         ELSE RatZero

SkipYears(list, t) ==
    LET first == SetMin(CompletedYears(t))
    IN  SelectSeq([i \in 1..Len(list) |-> <<list[i], first + i - 1>>],
                  LAMBDA x : x[2] \in CompletedYears(t))

CountsOf(s) ==
    [up |-> PairsWhere(s, IsUp), stalled |-> PairsWhere(s, IsStalled),
     reduced |-> PairsWhere(s, IsReduced), stopped |-> PairsWhere(s, IsStopped)]

\* a missing year i of the list between two positive totals, the later one
\* above the floor
GapYears(list, t, floor) ==
    {i \in 2..(Len(list) - 1) :
        /\ (SetMin(CompletedYears(t)) + i - 1) \notin CompletedYears(t)
        /\ RatLT(RatZero, list[i - 1])
        /\ RatLT(floor, list[i + 1])}

GapFilled(list, cnt, t, floor) ==
    /\ OneEntryPerYear(list, t)
    /\ \A i \in GapYears(list, t, floor) :
           /\ IsStopped(list[i - 1], list[i])
           /\ IsUp(list[i], list[i + 1])
    /\ GapYears(list, t, floor) # {} =>
           /\ cnt.stopped >= Cardinality(GapYears(list, t, floor))
           /\ cnt.up >= Cardinality(GapYears(list, t, floor))
           /\ cnt # CountsOf([i \in 1..Len(SkipYears(list, t)) |-> SkipYears(list, t)[i][1]])

GapFilledInBoth(floor) ==
    /\ RanFilter =>
           \A i \in 1..Len(filter_out.evals) :
               LET e == filter_out.evals[i]
               IN  e.yearly_totals_list # <<>> =>
                       GapFilled(e.yearly_totals_list, e.counts, e.symbol, floor)
    /\ stats_out.status = "ok" =>
           GapFilled(stats_out.yearly_totals_list, stats_out.counts, stats_out.symbol, floor)

C8_OverallCagrNoValue ==
    RanFilter =>
        /\ \A i \in 1..Len(filter_out.evals) :
               LET e == filter_out.evals[i]
               IN  Cardinality(CompletedYears(e.symbol)) < 2 => e.cagr_overall # RatZero
        /\ \A i \in 1..Len(filter_out.results) :
               LET row == filter_out.results[i]
               IN  Cardinality(CompletedYears(row.Symbol)) < 2 => row.CagrOverall # RatZero

\* the metrics of ticker t as the commands compute them from the store, each
\* taken on its own: the classification of a security without a completed
\* year counts nothing
GroupOf(t) == AdjustedGroup(query_dividends(None), t)

TotalsOf(t) == YearlyTotals(GroupOf(t), current_year)

MetricsOf(t) ==
    [NoEval EXCEPT !.symbol = t,
                   !.shares = FinalShares(get_splits(t)),
                   !.last_yield = LastYield(GroupOf(t), current_year),
                   !.five_yr_yield = FiveYearYield(GroupOf(t), current_year),
                   !.yearly_totals = TotalsOf(t),
                   !.counts = IF DOMAIN TotalsOf(t) = {} THEN NoCounts
                              ELSE classify_years(FillYears(TotalsOf(t))),
                   !.cagr_overall = OverallCagr(TotalsOf(t)),
                   !.c3 = get_cagr_for_years(TotalsOf(t), 3),
                   !.c5 = get_cagr_for_years(TotalsOf(t), 5),
                   !.c10 = get_cagr_for_years(TotalsOf(t), 10),
                   !.c15 = get_cagr_for_years(TotalsOf(t), 15),
                   !.c20 = get_cagr_for_years(TotalsOf(t), 20),
                   !.c30 = get_cagr_for_years(TotalsOf(t), 30)]

\* a minimum that is set holds of a metric that is defined and not below it
AtLeast(x, min) == min # None => (x # None /\ ~NumLT(x, min))
\* a maximum that is set holds of a count or yield not above it
AtMost(x, max) == max # None => ~RatLT(max, x)

ThresholdsHold(m, opts) ==
    /\ AtLeast(m.last_yield, opts.min_yield)
    /\ AtMost(m.last_yield, opts.max_yield)
    /\ AtLeast(R(m.counts.up), opts.years_up)
    /\ AtMost(R(m.counts.stalled), opts.years_stalled)
    /\ AtMost(R(m.counts.reduced), opts.years_reduced)
    /\ AtMost(R(m.counts.stopped), opts.years_stopped)
    /\ AtLeast(m.cagr_overall, opts.cagr_min)
    /\ AtLeast(m.c3, opts.cagr_3yr_min)
    /\ AtLeast(m.c5, opts.cagr_5yr_min)
    /\ AtLeast(m.c10, opts.cagr_10yr_min)

ExpressionTrue(m, opts) ==
    opts.condition # None =>
        LET v == PyEval(ReplaceFields(opts.condition), EvalVars(m))
        IN  ~IsException(v) /\ PyTruthy(v)

\* the securities the command has printed a row for
Emitted ==
    IF filter_out.status = "ok"
    THEN {filter_out.results[i].Symbol : i \in 1..Len(filter_out.results)}
    ELSE {}

\* C11: a security is emitted by the filter if and only if every threshold
\* that is set holds for it and the optional expression evaluates to true; an
\* unset threshold excludes nothing, so with no threshold and no expression
\* every security with at least one dividend event is emitted.
C11_EmittedIffThresholdsHold ==
    RanFilter =>
        \A t \in SymbolsWithRows :
            t \in Emitted <=> (/\ ThresholdsHold(MetricsOf(t), filter_out.opts)
                               /\ ExpressionTrue(MetricsOf(t), filter_out.opts))

\* the filter run of the same command on the store without the rows of ticker t
FilterWithout(t) ==
    LET all == query_dividends(filter_out.opts.symbol)
        rows == SelectSeq(all, LAMBDA r : r.ticker_id # t)
        out == [status |-> "nodata", opts |-> filter_out.opts, evals |-> <<>>, results |-> <<>>]
    IN  IF Len(rows) = 0 THEN out
        ELSE FilterLoop(rows, {rows[i].ticker_id : i \in 1..Len(rows)},
                        filter_out.opts, current_year, out)

\* the evaluations of the running filter in which eval raised
FailedEvals ==
    {i \in 1..Len(filter_out.evals) :
        filter_out.evals[i].evaluated /\ IsException(filter_out.evals[i].value)}

\* C12: when evaluating the expression fails for a security (unknown name,
\* malformed syntax, runtime error such as a division by zero), the security
\* is not in the results, a warning names the symbol and the error, and the
\* loop goes on to the next security: the rows of the other securities are
\* those of the run without the failing security.
C12_ExpressionFailureIsLocal ==
    RanFilter =>
        \A i \in FailedEvals :
            LET e == filter_out.evals[i]
            IN  /\ e.outcome = "skip"
                /\ \A k \in 1..Len(filter_out.results) : filter_out.results[k].Symbol # e.symbol
                /\ e.warning = <<e.symbol, e.value[1]>>
                /\ e.value[1] \in {"NameError", "SyntaxError", "ZeroDivisionError",
                                   "TypeError", "AttributeError"}
                /\ (\E t \in SymbolsWithRows : t > e.symbol) => Len(filter_out.evals) > i
                /\ filter_out.results = FilterWithout(e.symbol).results
                /\ (filter_out.status = "raised") = (FilterWithout(e.symbol).status = "raised")

\* ticker 1 divides by its zero yield and is left out with a warning, ticker 2
\* is evaluated after it and emitted
C12_Witness ==
    /\ filter_out.status = "ok"
    /\ Len(filter_out.evals) = 2
    /\ filter_out.evals[1].warning = <<1, "ZeroDivisionError">>
    /\ filter_out.evals[2].outcome = "row"
    /\ Len(filter_out.results) = 1 /\ filter_out.results[1].Symbol = 2

\* the expression uses something else than the named variables, numbers and
\* arithmetic, comparison and boolean operators
RECURSIVE UsesOtherConstruct(_)
UsesOtherConstruct(x) ==
    CASE x[1] = "name" -> x[2] \notin DOMAIN NoEvalVars
      [] x[1] = "op" -> UsesOtherConstruct(x[3]) \/ UsesOtherConstruct(x[4])
      [] x[1] = "num" -> FALSE
      [] OTHER -> TRUE

\* C13: the expression can only read the fixed named variables and apply
\* arithmetic, comparison and boolean operators: an expression with any other
\* construct (attribute access, call, subscript, comprehension, a name outside
\* the variable set) is an evaluation failure, it yields no value and reaches
\* nothing of the host.
C13_OnlyArithmeticOverVariables ==
    RanFilter /\ filter_out.opts.condition # None
              /\ UsesOtherConstruct(ReplaceFields(filter_out.opts.condition)) =>
        \A i \in 1..Len(filter_out.evals) :
            LET e == filter_out.evals[i]
            IN  e.evaluated =>
                    /\ IsException(e.value)
                    /\ e.value # LoadedClasses
                    /\ e.outcome = "skip"

\* the rows of the store without the events dated in the current year
NotThisYear(rows) == SelectSeq(rows, LAMBDA r : YearOf(r.ex_date) # current_year)

HasCurrentYearRow(t) ==
    \E d \in db_dividends : d.ticker_id = t /\ YearOf(d.ex_date) = current_year

\* the evaluation of ticker t by the running filter on the store without the
\* events of the current year
EvalWithoutThisYear(t) ==
    EvalSecurity(t, AdjustedGroup(NotThisYear(query_dividends(None)), t),
                 filter_out.opts, current_year)

StatsWithoutThisYear(t) ==
    StatsOf(t, adjust_dividends(NotThisYear(query_dividends(<<t>>)), get_splits(t)),
            current_year)

\* C14: dividend events dated in the current calendar year never influence
\* CAGR or classification: for a security with at least one completed-year
\* event, the overall CAGR, every windowed CAGR and the counts that filter and
\* stats compute are those computed from the store without (hence with any
\* other) current-year events.
C14_CurrentYearHasNoInfluence ==
    /\ RanFilter =>
           \A i \in 1..Len(filter_out.evals) :
               LET e == filter_out.evals[i]
                   a == EvalWithoutThisYear(e.symbol)
               IN  CompletedYears(e.symbol) # {} =>
                       /\ e.outcome = a.outcome
                       /\ e.yearly_totals_list = a.yearly_totals_list
                       /\ e.counts = a.counts
                       /\ e.cagr_overall = a.cagr_overall
                       /\ <<e.c3, e.c5, e.c10, e.c15, e.c20, e.c30>>
                              = <<a.c3, a.c5, a.c10, a.c15, a.c20, a.c30>>
    /\ RanStats /\ CompletedYears(stats_out.symbol) # {} =>
           /\ stats_out.status = "ok"
           /\ stats_out.counts = StatsWithoutThisYear(stats_out.symbol).counts
           /\ stats_out.cagrs = StatsWithoutThisYear(stats_out.symbol).cagrs
           /\ stats_out.yearly_totals_list
                  = StatsWithoutThisYear(stats_out.symbol).yearly_totals_list

\* a security with an event in a completed year and one in the current year
\* has gone through the filter to its row
C14_Witness ==
    /\ RanFilter
    /\ \E i \in 1..Len(filter_out.evals) :
           LET e == filter_out.evals[i]
           IN  /\ HasCurrentYearRow(e.symbol)
               /\ CompletedYears(e.symbol) # {}
               /\ e.outcome = "row"
               /\ Len(e.yearly_totals_list) = 1

\* the binding of a windowed CAGR c in the eval_vars: the CAGR when it is
\* defined, 0 when it is not
BoundAsNumber(bound, c) ==
    /\ IsNumber(bound)
    /\ c # None => bound = c
    /\ c = None => bound = RatZero

\* C15: whenever the expression is evaluated for a security, each of c3, c5,
\* c10, c15, c20 and c30 is bound to a number: the windowed CAGR when it is
\* defined and 0 when it is undefined, never None.
C15_WindowsBoundToNumbers ==
    RanFilter =>
        \A i \in 1..Len(filter_out.evals) :
            LET e == filter_out.evals[i]
            IN  e.evaluated =>
                    /\ BoundAsNumber(e.eval_vars.c3, e.c3)
                    /\ BoundAsNumber(e.eval_vars.c5, e.c5)
                    /\ BoundAsNumber(e.eval_vars.c10, e.c10)
                    /\ BoundAsNumber(e.eval_vars.c15, e.c15)
                    /\ BoundAsNumber(e.eval_vars.c20, e.c20)
                    /\ BoundAsNumber(e.eval_vars.c30, e.c30)

\* an expression reading c3 was evaluated with c3 defined and not 0 and c5
\* undefined
C15_Witness ==
    /\ RanFilter /\ filter_out.opts.condition = CondUpAndC3
    /\ \E i \in 1..Len(filter_out.evals) :
           LET e == filter_out.evals[i]
           IN  /\ e.evaluated
               /\ e.c3 \notin {None, RatZero} /\ e.eval_vars.c3 = e.c3
               /\ e.c5 = None /\ e.eval_vars.c5 = RatZero

-----------------------------------------------------------------------------
(* Specification SpecStore: insert_dividend and insert_split called on the *)
(* store in any order, with any key and any value                          *)

StoreDates == {20180315, 20200315}
StoreAmounts == {R(10), R(12)}
StoreSplitDates == {20190601}
StoreNumerators == {R(2), R(3)}

InitStore ==
    /\ db_dividends = {} /\ db_prices = {} /\ db_splits = {}
    /\ current_year = 0
    /\ filter_out = NoOutput /\ stats_out = NoOutput
    /\ pc = "idle"
    /\ IdleClassify /\ IdleAdjust /\ IdleCagr /\ IdleCall /\ IdleVendor

storeRest ==
    <<pc, classifyVars, adjustVars, cagrVars, current_year, filter_out, stats_out,
      db_prices, result, vendor>>

CallInsertDividend ==
    \E t \in Tickers, d \in StoreDates, a \in StoreAmounts :
        /\ db_dividends' = insert_dividend(db_dividends, t, d, a)
        /\ call' = <<"insert_dividend", t, d, a>>
        /\ UNCHANGED <<db_splits, storeRest>>

CallInsertSplit ==
    \E t \in Tickers, d \in StoreSplitDates, n \in StoreNumerators :
        /\ db_splits' = insert_split(db_splits, t, d, n, R(1))
        /\ call' = <<"insert_split", t, d, n, R(1)>>
        /\ UNCHANGED <<db_dividends, storeRest>>

NextStore == CallInsertDividend \/ CallInsertSplit

SpecStore == InitStore /\ [][NextStore]_vars

UniqueKeys(table) ==
    \A r, q \in table : (r.ticker_id = q.ticker_id /\ r.ex_date = q.ex_date) => r = q

\* C16: after any sequence of insert_dividend and insert_split calls the
\* store holds at most one dividend row and at most one split row per
\* (ticker_id, ex_date); an insert whose (ticker_id, ex_date) is already
\* stored leaves the amount / ratio of the stored row as it was and adds no row.
C16_OneRowPerKey ==
    [][/\ UniqueKeys(db_dividends') /\ UniqueKeys(db_splits')
       /\ \A r \in db_dividends : r \in db_dividends'
       /\ \A r \in db_splits : r \in db_splits'
       /\ (call' # NoCall /\ call'[1] = "insert_dividend"
               /\ HasKey(db_dividends, call'[2], call'[3])) => db_dividends' = db_dividends
       /\ (call' # NoCall /\ call'[1] = "insert_split"
               /\ HasKey(db_splits, call'[2], call'[3])) => db_splits' = db_splits]_vars

\* the last call inserted amount 12 for a key stored with amount 10, which is
\* still the only row of the key; a split is stored too
C16_Witness ==
    /\ call = <<"insert_dividend", 1, 20180315, R(12)>>
    /\ {r \in db_dividends : r.ticker_id = 1 /\ r.ex_date = 20180315}
           = {[ticker_id |-> 1, ex_date |-> 20180315, amount |-> R(10)]}
    /\ db_splits # {}

-----------------------------------------------------------------------------
(* Specification SpecUtils: dividend_yield and cagr called on their own    *)

\* amounts and prices around zero, the values of the repository's tests
YieldAmounts == {R(-5), R(0), Rat(1, 2), R(5), R(10), R(12)}
YieldPrices == {R(-100), Rat(-1, 2), R(0), Rat(1, 2), R(50), R(100)}

CagrFirsts == {R(-10), R(0), R(10), R(100)}
CagrLasts == {R(0), R(20), R(100), R(121), R(200)}
CagrSpans == {-1, 0, 1, 2, 3, 5}

InitUtils ==
    /\ \/ \E a \in YieldAmounts, p \in YieldPrices : call = <<"dividend_yield", a, p>>
       \/ \E f \in CagrFirsts, l \in CagrLasts, y \in CagrSpans : call = <<"cagr", f, l, y>>
    /\ result = None
    /\ pc = "call"
    /\ IdleClassify /\ IdleAdjust /\ IdleCagr /\ IdleStore /\ IdleVendor

utilsRest == <<call, classifyVars, adjustVars, cagrVars, storeVars, vendor>>

DividendYield ==
    /\ pc = "call" /\ call[1] = "dividend_yield"
    /\ pc' = "done"
    /\ result' = dividend_yield(call[2], call[3])
    /\ UNCHANGED utilsRest

\* The float arithmetic of cagr.  last / first is a double: it is the exact
\* quotient only when that is a dyadic rational.  x ** (1.0 / years) is the pow
\* of the C library: it returns x when the exponent is 1.0 and otherwise a
\* double next to the root, which one is left to the library.  The result of
\* the call is written [value, rounding]: the exact value of the expression
\* and the side (-1, 0, 1) on which the double returned lies.
RECURSIVE IsPowerOfTwo(_)
IsPowerOfTwo(d) == d = 1 \/ (d % 2 = 0 /\ IsPowerOfTwo(d \div 2))

FloatRoundings(first, last, yrs) ==
    IF yrs <= 0 \/ RatLE(first, RatZero) THEN {0}
    ELSE IF yrs = 1 /\ IsPowerOfTwo(RatDiv(last, first)[2]) THEN {0}
    ELSE {-1, 0, 1}

Cagr ==
    /\ pc = "call" /\ call[1] = "cagr"
    /\ pc' = "done"
    /\ \E k \in FloatRoundings(call[2], call[3], call[4]) :
           result' = [value |-> cagr(call[2], call[3], call[4]), rounding |-> k]
    /\ UNCHANGED utilsRest

NextUtils == DividendYield \/ Cagr

SpecUtils == InitUtils /\ [][NextUtils]_vars

\* C17: dividend_yield(amount, price) returns 0 whenever price <= 0, for any
\* amount, and amount / price * 100 otherwise; dividend_yield(5, 100) = 5,
\* dividend_yield(0, 100) = 0 and dividend_yield(5, 0) = 0; it returns a
\* number for every input, it raises no division error.
C17_YieldZeroWithoutPrice ==
    pc = "done" /\ call[1] = "dividend_yield" =>
        LET amount == call[2]
            price == call[3]
        IN  /\ IsNumber(result)
            /\ (price[1] <= 0 => result = RatZero)
            /\ (price[1] > 0 => RatMul(result, price) = RatMul(amount, R(100)))
            /\ (amount = R(5) /\ price = R(100) => result = R(5))
            /\ (amount = R(0) /\ price = R(100) => result = R(0))
            /\ (amount = R(5) /\ price = R(0) => result = R(0))

\* a negative price gave the yield 0
C17_Witness ==
    /\ pc = "done"
    /\ call = <<"dividend_yield", R(5), R(-100)>>
    /\ result = RatZero

\* the candidates for a rational k-th root of the ratios of CagrLasts over
\* CagrFirsts: numerators and denominators up to 15
RootBound == 15

\* res is ((q)^(1 / k) - 1) * 100: a rational whose growth factor is not
\* negative and has the k-th power q, or the irrational root of a q that
\* has no rational root
IsGrowthRate(res, q, k) ==
    IF Len(res) = 2
    THEN LET g == RatAdd(RatOne, RatDiv(res, R(100)))
         IN  g[1] >= 0 /\ RatPow(g, k) = q
    ELSE /\ res = <<"root", k, q[1], q[2]>>
         /\ \A n \in 0..RootBound, d \in 1..RootBound : RatPow(Rat(n, d), k) # q

\* what C18 says of a call, for the result of cagr(100, 121, 2) given by
\* Example(result)
CagrContract(Example(_)) ==
    pc = "done" /\ call[1] = "cagr" =>
        LET first == call[2]
            last == call[3]
            yrs == call[4]
        IN  /\ (yrs <= 0 \/ first[1] <= 0 => result = [value |-> RatZero, rounding |-> 0])
            /\ (yrs > 0 /\ first[1] > 0 =>
                    IsGrowthRate(result.value, RatDiv(last, first), yrs))
            /\ (call = <<"cagr", R(10), R(20), 1>> =>
                    result = [value |-> R(100), rounding |-> 0])
            /\ (call = <<"cagr", R(100), R(121), 2>> => Example(result))
            /\ (call = <<"cagr", R(0), R(100), 5>> =>
                    result = [value |-> R(0), rounding |-> 0])
            /\ (call = <<"cagr", R(100), R(200), 0>> =>
                    result = [value |-> R(0), rounding |-> 0])

IsExactly10(res) == res = [value |-> R(10), rounding |-> 0]
Is10UpToRounding(res) == res.value = R(10)

\* C18 as stated: cagr(first, last, years) returns 0 whenever years <= 0 or
\* first <= 0, and otherwise ((last / first)^(1 / years) - 1) * 100;
\* cagr(10, 20, 1) = 100, cagr(100, 121, 2) = 10, cagr(0, 100, 5) = 0 and
\* cagr(100, 200, 0) = 0.
C18_CagrExamplesExact == CagrContract(IsExactly10)

\* C18 as amended: the same, with cagr(100, 121, 2) equal to 10 up to the
\* rounding of the float square root.
C18_CagrExampleUpToRounding == CagrContract(Is10UpToRounding)

\* 100 to 121 in 2 years came out next to, not at, 10 percent a year
C18_Witness ==
    /\ pc = "done"
    /\ call = <<"cagr", R(100), R(121), 2>>
    /\ result.value = R(10) /\ result.rounding # 0

-----------------------------------------------------------------------------
(* Claims about adjust_dividends and the share multiplier of filter        *)

\* the total forward split multiplier of a split list: the product of the
\* ratios of all its splits
SharesOf(spls) ==
    RatProd([i \in 1..Len(spls) |-> Rat(spls[i].numerator[1] * spls[i].denominator[2],
                                        spls[i].numerator[2] * spls[i].denominator[1])])

\* C19: for every dividend event and any split list, splits_after times
\* splits_at_time is the total forward split multiplier 'shares', the product
\* of all the splits on file; so the accrued amount adjust_dividends writes is
\* always vendor_amount * shares, the same factor for every event wherever
\* its ex_date lies relative to the splits.
C19_AccruedIsVendorTimesShares ==
    pc = "done" /\ dividends # <<>> =>
        \A k \in 1..Len(adjusted) :
            LET e == adjusted[k]
                d == InputOf(e)
                splits_after == RatDiv(e.raw_amount, d.amount)
            IN  /\ RatMul(splits_after, e.splits_at_time) = SharesOf(splits)
                /\ SharesOf(splits) = FinalShares(splits)
                /\ e.amount = RatMul(d.amount, SharesOf(splits))

\* an event between two splits and an event after both carry the same factor
C19_Witness ==
    /\ pc = "done"
    /\ Len(adjusted) = 2 /\ Len(splits) = 2
    /\ splits[1].ex_date # splits[2].ex_date
    /\ adjusted[1].splits_at_time # RatOne
    /\ adjusted[1].raw_amount # InputOf(adjusted[1]).amount
    /\ adjusted[2].raw_amount = InputOf(adjusted[2]).amount
    /\ \A k \in 1..2 :
           adjusted[k].amount = RatMul(InputOf(adjusted[k]).amount, FinalShares(splits))

-----------------------------------------------------------------------------
(* fetch.py: fetch_dividends, and the data vendor it reads                 *)

\* The vendor keeps the history of the ticker: the dividends as they were
\* paid per share and the splits.  What its chart API returns is backward
\* adjusted: an amount or a close of date d is divided by the ratios of all
\* the splits it knows with a date after d.
VendorSplitsAfter(v, d) ==
    LET after == RowsInOrder({[ticker_id |-> 0, ex_date |-> sp.ex_date,
                               numerator |-> sp.numerator, denominator |-> sp.denominator] :
                                  sp \in {x \in v.splits : x.ex_date > d}})
    IN  RatProd([i \in 1..Len(after) |-> SplitRatio(after[i])])

\* the monthly quotes: the dates of the closes and the close paid on each,
\* before any adjustment
QuoteDates == {20180301, 20180401, 20200401}
RawClose == R(100)

\* the date of the latest event the vendor knows: the day of the request
VendorToday(v) ==
    SetMax({0} \cup {p.ex_date : p \in v.paid} \cup {sp.ex_date : sp \in v.splits})

\* a timestamp, in days on a calendar of 31-day months: fetch uses the order
\* of the timestamps and compares two distances
Timestamp(date) ==
    372 * (date \div 10000) + 31 * (((date \div 100) % 100) - 1) + ((date % 100) - 1)

\* datetime.utcfromtimestamp(ts).date().isoformat()
DateOf(ts) ==
    (ts \div 372) * 10000 + (((ts % 372) \div 31) + 1) * 100 + ((ts % 31) + 1)

\* result[0] of the chart API: events.splits, events.dividends, and the
\* timestamp / close lists
VendorResponse(v) ==
    [splits |-> {[date |-> Timestamp(sp.ex_date), numerator |-> sp.numerator,
                  denominator |-> sp.denominator] : sp \in v.splits},
     dividends |-> {[date |-> Timestamp(p.ex_date),
                     amount |-> RatDiv(p.amount, VendorSplitsAfter(v, p.ex_date))] :
                        p \in v.paid},
     quotes |-> {<<Timestamp(q), RatDiv(RawClose, VendorSplitsAfter(v, q))>> :
                    q \in {x \in QuoteDates : x <= VendorToday(v)}}]

\* valid_data.sort(): the (ts, price) pairs in ascending order
RECURSIVE SortedPairs(_)
SortedPairs(pairs) ==
    IF pairs = {} THEN <<>>
    ELSE LET first == CHOOSE x \in pairs : \A y \in pairs : x[1] <= y[1]
         IN  <<first>> \o SortedPairs(pairs \ {first})

\* bisect.bisect_left(valid_ts, ts)
BisectLeft(valid_data, ts) ==
    Cardinality({i \in 1..Len(valid_data) : valid_data[i][1] < ts})

\* lines 113-128: the close whose timestamp is closest to ts (valid_data is
\* indexed from 1, idx counts the timestamps below ts)
ClosestPrice(valid_data, ts) ==
    LET idx == BisectLeft(valid_data, ts)
    IN  IF idx = 0 THEN valid_data[1][2]
        ELSE IF idx = Len(valid_data) THEN valid_data[Len(valid_data)][2]
        ELSE LET before == valid_data[idx]
                 after == valid_data[idx + 1]
             IN  IF Abs(ts - before[1]) <= Abs(ts - after[1])
                 THEN before[2] ELSE after[2]

\* lines 73-79: the loop over splits_data
RECURSIVE FetchSplits(_, _, _)
FetchSplits(table, ticker_id, splits_data) ==
    IF splits_data = {} THEN table
    ELSE LET split == CHOOSE x \in splits_data : \A y \in splits_data : x.date <= y.date
         IN  FetchSplits(IF split.date # 0 /\ split.numerator # RatZero
                                /\ split.denominator # RatZero
                         THEN insert_split(table, ticker_id, DateOf(split.date),
                                           split.numerator, split.denominator)
                         ELSE table,
                         ticker_id, splits_data \ {split})

\* lines 99-132: the loop over dividends_data; store is the two tables
\* [dividends, prices] it writes
RECURSIVE FetchEvents(_, _, _, _)
FetchEvents(store, ticker_id, dividends_data, valid_data) ==
    IF dividends_data = {} THEN store
    ELSE LET div == CHOOSE x \in dividends_data : \A y \in dividends_data : x.date <= y.date
             date_str == DateOf(div.date)
         IN  FetchEvents(
                 [dividends |-> insert_dividend(store.dividends, ticker_id, date_str, div.amount),
                  prices |-> IF valid_data # <<>>
                             THEN insert_price(store.prices, ticker_id, date_str,
                                               ClosestPrice(valid_data, div.date))
                             ELSE store.prices],
                 ticker_id, dividends_data \ {div}, valid_data)

\* fetch_dividends(symbol) on the tables store = [dividends, prices, splits],
\* for the response of the vendor; the tickers table is not kept by the model
fetch_dividends(store, ticker_id, response) ==
    LET splits1 == FetchSplits(store.splits, ticker_id, response.splits)
        written == FetchEvents([dividends |-> store.dividends, prices |-> store.prices],
                               ticker_id, response.dividends, SortedPairs(response.quotes))
    IN  IF response.dividends = {}
        THEN [dividends |-> store.dividends, prices |-> store.prices, splits |-> splits1]
        ELSE [dividends |-> written.dividends, prices |-> written.prices, splits |-> splits1]

\* the return value (new_div, new_price): the events and the closes handed
\* to the inserts
FetchCounts(response) ==
    <<Cardinality(response.dividends),
      IF response.quotes = {} THEN 0 ELSE Cardinality(response.dividends)>>

-----------------------------------------------------------------------------
(* Specification SpecFetch: the history of ticker 1 grows at the vendor,   *)
(* a dividend or a split at a time, and the update command fetches it at   *)
(* any moment                                                              *)

MaxVendorDividends == 2
MaxVendorSplits == 1

\* 2018-03-15 and 2020-03-15
VendorDividendDates == {20180315, 20200315}
\* 2019-06-01 and 2021-06-01
VendorSplitDates == {20190601, 20210601}
VendorAmounts == {R(10), R(12)}

FetchedTicker == 1

InitFetch ==
    /\ vendor = NoVendor
    /\ db_dividends = {} /\ db_prices = {} /\ db_splits = {}
    /\ current_year = 0
    /\ filter_out = NoOutput /\ stats_out = NoOutput
    /\ pc = "stale"
    /\ IdleClassify /\ IdleAdjust /\ IdleCagr /\ IdleCall

fetchRest ==
    <<classifyVars, adjustVars, cagrVars, current_year, filter_out, stats_out, call>>

\* the company pays a dividend: a new event, later than all the vendor knows
VendorDividend ==
    \E d \in VendorDividendDates, a \in VendorAmounts :
        /\ Cardinality(vendor.paid) < MaxVendorDividends
        /\ d > VendorToday(vendor)
        /\ vendor' = [vendor EXCEPT !.paid = @ \cup {[ex_date |-> d, amount |-> a]}]
        /\ pc' = "stale"
        /\ UNCHANGED <<db_dividends, db_prices, db_splits, result, fetchRest>>

\* the share is split 2:1
VendorSplit ==
    \E d \in VendorSplitDates :
        /\ Cardinality(vendor.splits) < MaxVendorSplits
        /\ d > VendorToday(vendor)
        /\ vendor' = [vendor EXCEPT !.splits = @ \cup {[ex_date |-> d, numerator |-> R(2),
                                                       denominator |-> R(1)]}]
        /\ pc' = "stale"
        /\ UNCHANGED <<db_dividends, db_prices, db_splits, result, fetchRest>>

\* fetch.fetch_dividends(symbol) of the update command
FetchDividends ==
    LET store == fetch_dividends([dividends |-> db_dividends, prices |-> db_prices,
                                  splits |-> db_splits],
                                 FetchedTicker, VendorResponse(vendor))
    IN  /\ pc = "stale"
        /\ db_dividends' = store.dividends
        /\ db_prices' = store.prices
        /\ db_splits' = store.splits
        /\ result' = FetchCounts(VendorResponse(vendor))
        /\ pc' = "fetched"
        /\ UNCHANGED <<vendor, fetchRest>>

NextFetch == VendorDividend \/ VendorSplit \/ FetchDividends

SpecFetch == InitFetch /\ [][NextFetch]_vars

\* the rows query_dividends returns for ticker t from the tables of store
QueryStore(store, t) ==
    LET rows == RowsInOrder({d \in store.dividends : d.ticker_id = t})
    IN  [i \in 1..Len(rows) |->
            [id |-> i, ticker_id |-> t, ex_date |-> rows[i].ex_date,
             amount |-> rows[i].amount,
             close_price |-> IF HasKey(store.prices, t, rows[i].ex_date)
                             THEN (CHOOSE p \in store.prices :
                                       p.ticker_id = t /\ p.ex_date = rows[i].ex_date).close_price
                             ELSE None]]

\* what adjust_dividends derives from the tables of store
DerivedFrom(store) ==
    adjust_dividends(QueryStore(store, FetchedTicker),
                     RowsInOrder({sp \in store.splits : sp.ticker_id = FetchedTicker}))

\* a single fetch of the latest vendor data into an empty store
FreshStore ==
    fetch_dividends([dividends |-> {}, prices |-> {}, splits |-> {}],
                    FetchedTicker, VendorResponse(vendor))

PaidOn(d) == (CHOOSE p \in vendor.paid : p.ex_date = d).amount

\* C20: incremental refresh agrees with a fresh load: after any sequence of
\* fetch_dividends calls for a ticker (a fetch before and a fetch after a new
\* split included), the raw_amount and the raw close_price adjust_dividends
\* derives from the store for each dividend are those derived after a single
\* fetch of the latest vendor data into an empty store: the amount paid per
\* share at the time and a price of the same tier.
C20_RefreshAgreesWithFreshLoad ==
    pc = "fetched" =>
        LET stored == DerivedFrom([dividends |-> db_dividends, prices |-> db_prices,
                                   splits |-> db_splits])
            fresh == DerivedFrom(FreshStore)
        IN  /\ Len(stored) = Len(fresh)
            /\ \A k \in 1..Len(stored) :
                   /\ stored[k].ex_date = fresh[k].ex_date
                   /\ stored[k].raw_amount = fresh[k].raw_amount
                   /\ stored[k].close_price = fresh[k].close_price
                   /\ stored[k].raw_amount = PaidOn(stored[k].ex_date)

====
